---- MODULE Spec2Model ----
(***************************************************************************)
(* Model of plugins/in_udp/udp_conn.c (Fluent Bit UDP input): one          *)
(* connection, its byte buffer, the JSON and the delimited framer, the     *)
(* record emitter and the per-event controller udp_conn_event.             *)
(*                                                                         *)
(* A byte is a string naming it.  buf_data holds the valid region          *)
(* buf_data[0 .. buf_len) of the C buffer; the sentinel the code writes at *)
(* buf_data[buf_len] is implicit, and a NUL byte inside the region ends    *)
(* the C string that strstr sees (operator CStrEnd).                       *)
(***************************************************************************)
EXTENDS Integers, Sequences, FiniteSets, TLC

\* ------------------------------------------------------------------ bytes
CR  == "CR"
LF  == "LF"
NUL == "NUL"

FLB_UDP_FMT_JSON == "JSON"
FLB_UDP_FMT_NONE == "NONE"

\* ----------------------------------------------------------------- bounds
\* largest chunk_size (and buffer_size) of a JSON configuration
MaxJsonChunk == 4
\* largest chunk_size (and buffer_size) of a configuration delimited by LF
MaxTextChunk == 6
\* largest chunk_size (and buffer_size) of a configuration delimited by CR LF
MaxCrLfChunk == 5
\* largest chunk_size of a JSON configuration whose peer sends objects only
MaxObjChunk == 5

\* bytes a peer sends to a JSON connection
JsonBytes == {"{", "}", "4", LF}

\* bytes of a peer that sends nothing but (possibly nested) empty objects
ObjectBytes == {"{", "}"}

\* bytes a peer sends to a delimited connection, by separator
TextBytes(separator) ==
    IF separator = <<LF>> THEN {"a", LF, NUL} ELSE {"a", CR, LF}

\* the separators of the delimited configurations
Separators == {<<LF>>, <<CR, LF>>}

\* the configurations: chunk_size positive, chunk_size <= buffer_size
Configs ==
    {[format |-> FLB_UDP_FMT_JSON, separator |-> <<LF>>,
      chunk_size |-> c, buffer_size |-> b] :
        c \in 1..MaxJsonChunk, b \in 1..MaxJsonChunk}
    \cup
    {[format |-> FLB_UDP_FMT_NONE, separator |-> <<LF>>,
      chunk_size |-> c, buffer_size |-> b] :
        c \in 1..MaxTextChunk, b \in 1..MaxTextChunk}
    \cup
    {[format |-> FLB_UDP_FMT_NONE, separator |-> <<CR, LF>>,
      chunk_size |-> c, buffer_size |-> b] :
        c \in 1..MaxCrLfChunk, b \in 1..MaxCrLfChunk}
    \cup
    {[format |-> FLB_UDP_FMT_JSON, separator |-> <<LF>>,
      chunk_size |-> c, buffer_size |-> c] :
        c \in (MaxJsonChunk + 1)..MaxObjChunk}

ValidConfigs == {c \in Configs : c.chunk_size <= c.buffer_size}

RECURSIVE SeqsOfLen(_, _)
SeqsOfLen(S, n) ==
    IF n = 0 THEN {<<>>}
    ELSE {Append(q, x) : q \in SeqsOfLen(S, n - 1), x \in S}

\* the byte sequences of length 1..n over the bytes of each kind of peer
MaxRead ==
    CHOOSE m \in {MaxJsonChunk, MaxTextChunk, MaxCrLfChunk, MaxObjChunk} :
        \A n \in {MaxJsonChunk, MaxTextChunk, MaxCrLfChunk, MaxObjChunk} :
            n <= m

DatagramTable ==
    [S \in {JsonBytes, ObjectBytes} \cup {TextBytes(sp) : sp \in Separators} |->
        [n \in 0..MaxRead |-> UNION {SeqsOfLen(S, k) : k \in 1..n}]]

\* what one read can deliver into `available` free bytes; the peer of a
\* JSON connection with a chunk above MaxJsonChunk sends objects only
Datagrams(cfg, available) ==
    LET S == IF cfg.format = FLB_UDP_FMT_JSON
             THEN (IF cfg.chunk_size <= MaxJsonChunk THEN JsonBytes
                   ELSE ObjectBytes)
             ELSE TextBytes(cfg.separator)
    IN  DatagramTable[S][available]

\* --------------------------------------------------------------- helpers
Last(q) == q[Len(q)]
Front(q) == SubSeq(q, 1, Len(q) - 1)
IsPrefix(p, q) == Len(p) <= Len(q) /\ SubSeq(q, 1, Len(p)) = p

VARIABLES
    ctx,        \* struct flb_in_udp_config: format, separator, chunk_size, buffer_size
    buf_data,   \* conn->buf_data[0 .. buf_len)
    buf_len,    \* conn->buf_len
    buf_size,   \* conn->buf_size
    pack_state, \* conn->pack_state
    buf_mark,   \* per buffered byte: was it already part of an emitted record
    ev          \* what the last udp_conn_event did (observation only)

vars == <<ctx, buf_data, buf_len, buf_size, pack_state, buf_mark, ev>>

\* ------------------------------------------------- buffer (consume_bytes)
\* memmove(buf, buf + bytes, length - bytes): the bytes [bytes, length) move
\* to the front
consume_bytes(buf, bytes, length) == SubSeq(buf, bytes + 1, length)

\* The byte the CR/LF test of udp_conn_event reads at buf_data[0]; the
\* sentinel when the region is empty.
FirstByte(buf) == IF Len(buf) = 0 THEN NUL ELSE buf[1]

\* variant of IsCrOrLf that knows the line feed only
IsCrOrLf_LfOnly(b) == b = LF

IsCrOrLf(b) == b = CR \/ b = LF

\* -------------------------------------- resumable JSON parser (flb_pack)
\* The tokenizer is used through flb_pack_json_state, flb_pack_state_init,
\* flb_pack_state_reset and jsmn_init.  Its state: the cursor, the open
\* containers, where the top-level value in progress started, the token
\* count, the last byte of the last pass and the "multiple values" flag.
FLB_ERR_JSON_PART  == "FLB_ERR_JSON_PART"
FLB_ERR_JSON_INVAL == "FLB_ERR_JSON_INVAL"
JSON_OK            == "OK"

MSGPACK_OBJECT_MAP   == "MAP"
MSGPACK_OBJECT_ARRAY == "ARRAY"
MSGPACK_OBJECT_OTHER == "OTHER"

\* jsmn_init: cursor at 0, no open container
jsmn_init(st) == [st EXCEPT !.pos = 0, !.stack = <<>>, !.tok_start = 0]

\* flb_pack_state_reset: the token table is dropped and the counters zeroed
flb_pack_state_reset(st) ==
    [st EXCEPT !.tokens_count = 0, !.last_byte = 0]

\* flb_pack_state_init: a fresh parser and token table, multiple = FALSE
flb_pack_state_init(st) ==
    [jsmn_init(st) EXCEPT !.tokens_count = 0, !.last_byte = 0,
                          !.multiple = FALSE]

\* a pack_state no function has initialised (format NONE never uses it)
NoPackState ==
    [pos |-> 0, stack |-> <<>>, tok_start |-> 0, tokens_count |-> 0,
     last_byte |-> 0, multiple |-> FALSE]

OpenBytes  == {"{", "["}
CloseBytes == {"}", "]"}
OpenOf(c)  == IF c = "}" THEN "{" ELSE "["
TypeOf(c)  == IF c = "}" THEN MSGPACK_OBJECT_MAP ELSE MSGPACK_OBJECT_ARRAY
ScalarBytes == {"4"}
IsJsonSpace(c) == c = CR \/ c = LF

\* end (exclusive, 0-based) of the run of scalar bytes that starts at pos
RECURSIVE ScalarEnd(_, _, _)
ScalarEnd(js, len, pos) ==
    IF pos < len /\ js[pos + 1] \in ScalarBytes
    THEN ScalarEnd(js, len, pos + 1) ELSE pos

\* One tokenizing pass from the cursor p.pos to the end of js[0 .. len).
\* p: pos, stack, tok_start, count (tokens), vals (complete top-level
\* values, each with its type and its byte range [start, end)), err.
RECURSIVE JsmnParse(_, _, _)
JsmnParse(js, len, p) ==
    IF p.err \/ p.pos >= len THEN p
    ELSE LET c == js[p.pos + 1] IN
      IF c \in OpenBytes THEN
        JsmnParse(js, len,
          [p EXCEPT !.pos = @ + 1,
                    !.stack = Append(@, c),
                    !.tok_start = IF p.stack = <<>> THEN p.pos ELSE @,
                    !.count = @ + 1])
      ELSE IF c \in CloseBytes THEN
        IF p.stack = <<>> \/ Last(p.stack) # OpenOf(c)
        THEN [p EXCEPT !.err = TRUE]
        ELSE JsmnParse(js, len,
          [p EXCEPT !.pos = @ + 1,
                    !.stack = Front(@),
                    !.vals = IF Len(p.stack) = 1
                             THEN Append(@, [type |-> TypeOf(c),
                                             start |-> p.tok_start,
                                             end |-> p.pos + 1])
                             ELSE @])
      ELSE IF c \in ScalarBytes THEN
        LET e == ScalarEnd(js, len, p.pos) IN
        JsmnParse(js, len,
          [p EXCEPT !.pos = e,
                    !.count = @ + 1,
                    !.vals = IF p.stack = <<>>
                             THEN Append(@, [type |-> MSGPACK_OBJECT_OTHER,
                                             start |-> p.pos, end |-> e])
                             ELSE @])
      ELSE IF IsJsonSpace(c) THEN
        JsmnParse(js, len, [p EXCEPT !.pos = @ + 1])
      ELSE [p EXCEPT !.err = TRUE]

\* flb_pack_json_state(js, len, &pack, &out_size, state): the resumable pass.
\* Result: ret, pack (the complete top-level values, in order) and the state.
\*   invalid syntax                            -> FLB_ERR_JSON_INVAL
\*   ends inside a value, no complete value    -> FLB_ERR_JSON_PART, the
\*                                                cursor and open containers kept
\*   ends inside a value, some complete values -> OK when multiple is set
\*   no value at all                           -> FLB_ERR_JSON_INVAL
\*   otherwise OK; last_byte = end of the last complete value
flb_pack_json_state(js, len, st) ==
    LET Result(p) ==
          LET kept == [st EXCEPT !.pos = p.pos, !.stack = p.stack,
                                 !.tok_start = p.tok_start,
                                 !.tokens_count = p.count]
              done == [kept EXCEPT !.last_byte = Last(p.vals).end]
          IN  IF p.err THEN
                  [ret |-> FLB_ERR_JSON_INVAL, pack |-> <<>>, state |-> st]
              ELSE IF p.stack # <<>> THEN
                  IF st.multiple /\ p.vals # <<>>
                  THEN [ret |-> JSON_OK, pack |-> p.vals, state |-> done]
                  ELSE [ret |-> FLB_ERR_JSON_PART, pack |-> <<>>,
                        state |-> kept]
              ELSE IF p.vals = <<>> THEN
                  [ret |-> FLB_ERR_JSON_INVAL, pack |-> <<>>,
                   state |-> [kept EXCEPT !.last_byte = 0]]
              ELSE [ret |-> JSON_OK, pack |-> p.vals, state |-> done]
    IN  Result(JsmnParse(js, len,
                 [pos |-> st.pos, stack |-> st.stack,
                  tok_start |-> st.tok_start, count |-> st.tokens_count,
                  vals |-> <<>>, err |-> FALSE]))


\* ------------------------------------------------ record emitter (sink)
\* One envelope [timestamp, payload]; the timestamp is abstracted to "now".
Envelope(key, body) == <<"now", [key |-> key, val |-> body]>>

\* variant of ValueBytes that takes the buffer from its start
ValueBytes_FromStart(js, v) == SubSeq(js, 1, v.end)

\* The bytes of the value v of the buffer js
ValueBytes(js, v) == SubSeq(js, v.start + 1, v.end)

\* process_pack's loop over the concatenated entries, from entry i on:
\* a map is passed through, an array is wrapped as {"msg": entry}, any other
\* type ends the loop with failure.
RECURSIVE PackEntries(_, _, _, _)
PackEntries(js, pack, i, batch) ==
    IF i > Len(pack) THEN [ok |-> TRUE, batch |-> batch]
    ELSE LET entry == pack[i] IN
         IF entry.type = MSGPACK_OBJECT_MAP THEN
            PackEntries(js, pack, i + 1,
                        Append(batch, Envelope("", ValueBytes(js, entry))))
         ELSE IF entry.type = MSGPACK_OBJECT_ARRAY THEN
            PackEntries(js, pack, i + 1,
                        Append(batch, Envelope("msg", ValueBytes(js, entry))))
         ELSE [ok |-> FALSE, batch |-> batch]

\* variant of FailedPassSink that hands over what was packed so far
FailedPassSink_Flush(batch) == <<batch>>

\* the sink calls of a pass that met an entry of another type: the local
\* buffer is destroyed and flb_input_log_append is not called
FailedPassSink(batch) == <<>>

\* process_pack(conn, pack, size): ret, and the calls of
\* flb_input_log_append it made (each call is the batch it passed) with the
\* byte ranges of the buffer the delivered records carry.
\* packed: how many entries were packed when the loop ended.
process_pack(js, pack) ==
    LET Result(r) ==
          IF r.ok
          THEN [ret |-> 0, sink |-> <<r.batch>>,
                ranges |-> [i \in 1..Len(pack) |->
                               <<pack[i].start, pack[i].end>>],
                packed |-> Len(r.batch)]
          ELSE [ret |-> -1, sink |-> FailedPassSink(r.batch),
                ranges |-> <<>>, packed |-> Len(r.batch)]
    IN  Result(PackEntries(js, pack, 1, <<>>))

\* ------------------------------------------------------ JSON framer
\* variant of PartialState that forgets the open containers, not the cursor
PartialState_NoContainers(st) == [st EXCEPT !.stack = <<>>]

\* "JSON incomplete, waiting for more data": the parser state stays as the
\* tokenizer left it
PartialState(st) == st

\* variant of InvalidBufLen that keeps the buffer
InvalidBufLen_Kept(len) == len

\* conn->buf_len = 0 on invalid JSON
InvalidBufLen(len) == 0

\* parse_payload_json(conn): ret (bytes processed, 0 or -1), the connection
\* fields it changes, and what it sent to the sink.  The tokenizer has the
\* three results above, so the branch for its result -1 is never taken.
parse_payload_json(buf, len, st) ==
    LET Packed(t, pp) ==
          [ret |-> t.state.last_byte, buf_len |-> len, state |-> t.state,
           sink |-> pp.sink, ranges |-> pp.ranges, pp_called |-> TRUE,
           pp_ret |-> pp.ret, pp_packed |-> pp.packed]
        Result(t) ==
          IF t.ret = FLB_ERR_JSON_PART THEN
              [ret |-> 0, buf_len |-> len, state |-> PartialState(t.state),
               sink |-> <<>>, ranges |-> <<>>, pp_called |-> FALSE,
               pp_ret |-> 0, pp_packed |-> 0]
          ELSE IF t.ret = FLB_ERR_JSON_INVAL THEN
              [ret |-> -1, buf_len |-> InvalidBufLen(len),
               state |-> [t.state EXCEPT !.multiple = TRUE],
               sink |-> <<>>, ranges |-> <<>>, pp_called |-> FALSE,
               pp_ret |-> 0, pp_packed |-> 0]
          ELSE Packed(t, process_pack(buf, t.pack))
    IN  Result(flb_pack_json_state(buf, len, st))

\* ------------------------------------------------- delimited framer
\* Length of the C string at buf: the offset of the first NUL byte, or of
\* the sentinel at buf[len]
RECURSIVE CStrEnd(_, _)
CStrEnd(buf, from) ==
    IF from >= Len(buf) \/ buf[from + 1] = NUL THEN from
    ELSE CStrEnd(buf, from + 1)

\* strstr(buf + off, separator): offset (from buf) of the first occurrence
\* of separator in the C string that starts at buf + off, or -1 for NULL
strstr(buf, off, separator) ==
    LET First(hits) ==
          IF hits = {} THEN -1
          ELSE CHOOSE i \in hits : \A j \in hits : i <= j
    IN  First({i \in off..(CStrEnd(buf, off) - Len(separator)) :
                  SubSeq(buf, i + 1, i + Len(separator)) = separator})

\* variant of ConsumedStep that does not count the separator
ConsumedStep_NoSeparator(len, sep_len) == len

\* consumed += len + 1
ConsumedStep(len, sep_len) == len + 1

\* variant of ScanAdvance that steps over the separator length only
ScanAdvance_SeparatorOnly(len, sep_len) == sep_len

\* buf += len + sep_len
ScanAdvance(len, sep_len) == len + sep_len

\* variant of EndsPass that goes on after an empty segment
EndsPass_NegativeOnly(len) == len < 0

\* if (len == 0) break; ... else break: only a segment of positive length
\* is packed
EndsPass(len) == len <= 0

\* The while loop of parse_payload_none; off is buf - conn->buf_data.
RECURSIVE ScanNone(_, _, _, _, _, _)
ScanNone(buf, separator, off, consumed, batch, ranges) ==
    LET Step(s, len) ==
          IF s = -1 \/ EndsPass(len)
          THEN [consumed |-> consumed, batch |-> batch, ranges |-> ranges]
          ELSE ScanNone(buf, separator,
                        off + ScanAdvance(len, Len(separator)),
                        consumed + ConsumedStep(len, Len(separator)),
                        Append(batch,
                               Envelope("log", SubSeq(buf, off + 1, off + len))),
                        Append(ranges, <<off, off + len>>))
        Found(s) == Step(s, s - off)
    IN  Found(strstr(buf, off, separator))

\* parse_payload_none(conn): ret (bytes processed) and what it sent to the
\* sink: flb_input_log_append is called with whatever was packed.
parse_payload_none(buf, len, st, separator) ==
    LET Result(r) ==
          [ret |-> r.consumed, buf_len |-> len, state |-> st,
           sink |-> <<r.batch>>, ranges |-> r.ranges, pp_called |-> FALSE,
           pp_ret |-> 0, pp_packed |-> 0]
    IN  Result(ScanNone(buf, separator, 0, 0, <<>>, <<>>))


\* --------------------------------------------------------- udp_conn_add
\* The connection udp_conn_add returns: an empty buffer of chunk_size bytes
\* and, for JSON, an initialised parser with multiple = TRUE.
\* What an event is observed to do.  outcome, ret: how it ended and what it
\* returned; ret_payload: what the framer returned; reset_entry, reset_exit:
\* the parser was hard-reset before the read, after the pass; realloc:
\* flb_realloc was called; rd: the bytes read; read_buf: the buffer after
\* the read; framed: the framer ran; multiple: pack_state.multiple when it
\* ran; scan_buf: the buffer it scanned; sink: the calls of
\* flb_input_log_append; pp_called, pp_ret, pp_packed: process_pack ran,
\* its return, the entries it had packed; dup: a byte was emitted twice.
NoEvent ==
    [outcome |-> "Init", ret |-> 0, ret_payload |-> -1,
     reset_entry |-> FALSE, reset_exit |-> FALSE, realloc |-> FALSE,
     rd |-> <<>>, read_buf |-> <<>>, framed |-> FALSE, multiple |-> FALSE,
     scan_buf |-> <<>>, sink |-> <<>>,
     pp_called |-> FALSE, pp_ret |-> 0, pp_packed |-> 0, dup |-> FALSE]

udp_conn_add(cfg) ==
    /\ ctx = cfg
    /\ buf_len = 0
    /\ buf_data = <<>>
    /\ buf_size = cfg.chunk_size
    /\ pack_state = IF cfg.format = FLB_UDP_FMT_JSON
                    THEN [flb_pack_state_init(NoPackState)
                            EXCEPT !.multiple = TRUE]
                    ELSE NoPackState
    /\ buf_mark = <<>>
    /\ ev = NoEvent

Init == \E cfg \in ValidConfigs : udp_conn_add(cfg)

\* ------------------------------------------------------- udp_conn_event
\* variant of HardReset that leaves multiple as flb_pack_state_init set it
HardReset_NoMultiple(st) ==
    flb_pack_state_init(flb_pack_state_reset(st))

\* flb_pack_state_reset; flb_pack_state_init; multiple = FLB_TRUE
HardReset(st) ==
    [flb_pack_state_init(flb_pack_state_reset(st)) EXCEPT !.multiple = TRUE]

\* jsmn_init; tokens_count = 0; last_byte = 0 (after a consumed pass)
SoftReset(st) ==
    [jsmn_init(st) EXCEPT !.tokens_count = 0, !.last_byte = 0]

\* variant of BufLenAtRead that keeps the bytes the last event left
BufLenAtRead_Kept(len) == len

\* conn->buf_len = 0 before the headroom is computed
BufLenAtRead(len) == 0

\* variant of Available that reserves no byte for the sentinel
Available_NoSentinel(size, len) == size - len

\* available = (conn->buf_size - conn->buf_len) - 1
Available(size, len) == (size - len) - 1

\* variant of ExceedsLimit that tests the current size, not the grown one
ExceedsLimit_NoChunk(size, chunk_size, buffer_size) == size > buffer_size

\* conn->buf_size + ctx->chunk_size > ctx->buffer_size
ExceedsLimit(size, chunk_size, buffer_size) == size + chunk_size > buffer_size

\* Records of a pass cover the byte ranges `ranges` of the scanned buffer:
\* the marks afterwards, and whether a byte was covered a second time.
Covers(ranges, i) == {k \in 1..Len(ranges) : ranges[k][1] < i /\ i <= ranges[k][2]}

MarkEmitted(mark, ranges) ==
    [i \in 1..Len(mark) |-> mark[i] \/ Covers(ranges, i) # {}]

EmittedTwice(mark, ranges) ==
    \E i \in 1..Len(mark) :
        \/ mark[i] /\ Covers(ranges, i) # {}
        \/ Cardinality(Covers(ranges, i)) > 1

\* The connection fields and the event record a return leaves behind
Finish(data, len, size, st, mark, e) ==
    [buf_data |-> data, buf_len |-> len, buf_size |-> size,
     pack_state |-> st, buf_mark |-> mark, ev |-> e]

\* One invocation of the callback on connection c, from entry to return:
\* alloc_ok is whether flb_realloc succeeds, net what flb_io_net_read
\* delivers (<<>>: it returned <= 0).
RunEvent(c, cfg, alloc_ok, net) ==
    LET json  == cfg.format = FLB_UDP_FMT_JSON
        bytes == Len(net)
        \* the framer returned fr for the buffer data2; e2 records the pass
        Framed(fr, data2, mark3, size, e2) ==
          IF fr.ret = 0 THEN
              \* the framer needs more data
              Finish(SubSeq(data2, 1, fr.buf_len), fr.buf_len, size, fr.state,
                     SubSeq(mark3, 1, fr.buf_len),
                     [e2 EXCEPT !.outcome = "NeedMoreData", !.ret = -1])
          ELSE IF fr.ret = -1 THEN
              \* JSON: the framer set buf_len; otherwise conn->buf_len = 0
              Finish(SubSeq(data2, 1, IF json THEN fr.buf_len ELSE 0),
                     IF json THEN fr.buf_len ELSE 0, size,
                     IF json THEN HardReset(fr.state) ELSE fr.state,
                     SubSeq(mark3, 1, IF json THEN fr.buf_len ELSE 0),
                     [e2 EXCEPT !.outcome = "Invalid", !.ret = -1,
                                !.reset_exit = json])
          ELSE
              Finish(consume_bytes(data2, fr.ret, fr.buf_len),
                     fr.buf_len - fr.ret, size,
                     IF json THEN SoftReset(fr.state) ELSE fr.state,
                     consume_bytes(mark3, fr.ret, fr.buf_len),
                     [e2 EXCEPT !.outcome = "Consumed", !.ret = bytes])
        \* what the pass fr over data2 adds to the event record
        Observe(fr, data2, mark2, size, e1) ==
          Framed(fr, data2, MarkEmitted(mark2, fr.ranges), size,
                 [e1 EXCEPT !.framed = TRUE, !.scan_buf = data2,
                            !.ret_payload = fr.ret, !.sink = fr.sink,
                            !.pp_called = fr.pp_called,
                            !.pp_ret = fr.pp_ret,
                            !.pp_packed = fr.pp_packed,
                            !.dup = EmittedTwice(mark2, fr.ranges)])
        \* the buffer is data2 after the strip; the framer of the format runs
        Stripped(data2, len2, mark2, st0, size, e1) ==
          Observe(IF json THEN parse_payload_json(data2, len2, st0)
                  ELSE parse_payload_none(data2, len2, st0, cfg.separator),
                  data2, mark2, size, e1)
        \* the buffer is data1 after the read: strip CR or LF at first byte
        Read(data1, len1, mark1, st0, size, e1) ==
          IF IsCrOrLf(FirstByte(data1))
          THEN Stripped(consume_bytes(data1, 1, len1), len1 - 1,
                        consume_bytes(mark1, 1, len1), st0, size,
                        [e1 EXCEPT !.read_buf = data1])
          ELSE Stripped(data1, len1, mark1, st0, size,
                        [e1 EXCEPT !.read_buf = data1])
        \* from conn->buf_len = 0 on; st0 is the parser state at that point
        Entered(st0, len0, data0, mark0, grow, e0) ==
          IF grow /\ ExceedsLimit(c.buf_size, cfg.chunk_size, cfg.buffer_size)
          THEN
              Finish(data0, len0, c.buf_size, st0, mark0,
                     [e0 EXCEPT !.outcome = "CapacityExceeded", !.ret = -1])
          ELSE IF grow /\ ~alloc_ok THEN
              \* flb_realloc returned NULL
              Finish(data0, len0, c.buf_size, st0, mark0,
                     [e0 EXCEPT !.outcome = "AllocFailure", !.ret = -1,
                                !.realloc = TRUE])
          ELSE IF bytes <= 0 THEN
              Finish(data0, len0,
                     IF grow THEN c.buf_size + cfg.chunk_size ELSE c.buf_size,
                     st0, mark0,
                     [e0 EXCEPT !.outcome = "ReadFailure", !.ret = -1,
                                !.realloc = grow, !.rd = net])
          ELSE
              Read(data0 \o net, len0 + bytes,
                   mark0 \o [i \in 1..bytes |-> FALSE], st0,
                   IF grow THEN c.buf_size + cfg.chunk_size ELSE c.buf_size,
                   [e0 EXCEPT !.realloc = grow, !.rd = net,
                              !.multiple = st0.multiple])
        AtEntry(reset_entry, len0) ==
          Entered(IF reset_entry THEN HardReset(c.pack_state)
                  ELSE c.pack_state,
                  len0, SubSeq(c.buf_data, 1, len0),
                  SubSeq(c.buf_mark, 1, len0),
                  Available(c.buf_size, len0) < 1,
                  [NoEvent EXCEPT !.reset_entry = reset_entry])
    IN  AtEntry(json /\ c.buf_len > 0, BufLenAtRead(c.buf_len))

\* the connection as udp_conn_event finds it
Conn ==
    [buf_data |-> buf_data, buf_len |-> buf_len, buf_size |-> buf_size,
     pack_state |-> pack_state, buf_mark |-> buf_mark, ev |-> ev]

\* whether this event has to grow the buffer, and the headroom it reads into
GrowNeeded == Available(buf_size, BufLenAtRead(buf_len)) < 1

Headroom ==
    IF ~GrowNeeded THEN Available(buf_size, BufLenAtRead(buf_len))
    ELSE IF ExceedsLimit(buf_size, ctx.chunk_size, ctx.buffer_size) THEN 0
    ELSE Available(buf_size + ctx.chunk_size, BufLenAtRead(buf_len))

\* Callback invoked every time an event is triggered for the connection
udp_conn_event ==
    \E alloc_ok \in (IF GrowNeeded THEN BOOLEAN ELSE {TRUE}) :
      \E net \in {<<>>} \cup (IF alloc_ok THEN Datagrams(ctx, Headroom) ELSE {}) :
        \E r \in {RunEvent(Conn, ctx, alloc_ok, net)} :
            /\ buf_data' = r.buf_data
            /\ buf_len' = r.buf_len
            /\ buf_size' = r.buf_size
            /\ pack_state' = r.pack_state
            /\ buf_mark' = r.buf_mark
            /\ ev' = r.ev
            /\ UNCHANGED ctx

Next == udp_conn_event

Spec == Init /\ [][Next]_vars

\* ------------------------------------------------------ type invariant
TypeOK ==
    /\ ctx \in ValidConfigs
    /\ buf_len = Len(buf_data)
    /\ Len(buf_mark) = Len(buf_data)
    /\ buf_size \in 1..(MaxRead + 1)


\* ================================================================ claims
Json == ctx.format = FLB_UDP_FMT_JSON
Text == ctx.format = FLB_UDP_FMT_NONE

\* the buffer does not start with a byte the next event would strip
KeepsFirstByte == ~IsCrOrLf(FirstByte(buf_data))

\* C1: when an event ends with the framer reporting NeedMoreData, the bytes
\* then in the buffer (not starting with CR or LF) are at the front of the
\* buffer the framer scans in the next event, unchanged, with the newly
\* read bytes appended.
C1_KeptAfterNeedMoreData ==
    [][(ev.outcome = "NeedMoreData" /\ KeepsFirstByte /\ ev'.framed)
        => /\ IsPrefix(buf_data, ev'.scan_buf)
           /\ ev'.scan_buf = buf_data \o ev'.rd]_vars

\* C2: in JSON format the parser state is not reset or reinitialised
\* between an event that ended NeedMoreData and the framing pass of the
\* next event.
C2_NoResetAfterNeedMoreData ==
    [][(Json /\ ev.outcome = "NeedMoreData") => ~ev'.reset_entry]_vars

\* js is exactly one complete top-level object
IsOneObject(js) ==
    LET t == flb_pack_json_state(js, Len(js), HardReset(NoPackState)) IN
    /\ t.ret = JSON_OK
    /\ Len(t.pack) = 1
    /\ t.pack[1].type = MSGPACK_OBJECT_MAP
    /\ t.pack[1].start = 0
    /\ t.pack[1].end = Len(js)

\* two consecutive reads, the first into an empty buffer, that together
\* carry exactly one object
SplitObject ==
    /\ Json
    /\ ev.framed /\ ~ev.reset_entry
    /\ ev'.rd # <<>>
    /\ IsOneObject(ev.rd \o ev'.rd)

\* C3: in JSON format, an object split across two consecutive reads: the
\* first event emits nothing and reports NeedMoreData, the second emits
\* exactly one envelope carrying the object and leaves the buffer empty.
C3_SplitObjectEmittedOnce ==
    [][SplitObject
        => /\ ev.outcome = "NeedMoreData" /\ ev.sink = <<>>
           /\ ev'.sink = << <<Envelope("", ev.rd \o ev'.rd)>> >>
           /\ buf_len' = 0]_vars

\* the pass of the last event delivered its records (no error on the way)
Delivered ==
    /\ ev.outcome = "Consumed"
    /\ ~(ev.pp_called /\ ev.pp_ret = -1)

\* C4: after a pass consumed n bytes with n less than the buffer length and
\* no error occurred, the bytes left in the buffer (not starting with CR or
\* LF) are the front of the buffer the next event's framing pass scans.
C4_LeftoverBeginsNextPass ==
    [][(Delivered /\ buf_len > 0 /\ KeepsFirstByte /\ ev'.framed)
        => IsPrefix(buf_data, ev'.scan_buf)]_vars

\* C5: no received byte is part of the payload of more than one emitted
\* record, over any sequence of events and for any separator length.
C5_NoByteEmittedTwice == ~ev.dup

C5_Witness ==
    /\ Text /\ Len(ctx.separator) > 1
    /\ ev.outcome = "Consumed"
    /\ Len(ev.sink) = 1 /\ Len(ev.sink[1]) >= 1
    /\ buf_len > 0

\* C6: with chunk_size <= buffer_size the capacity never exceeds the
\* ceiling, and an event that would have to grow past it returns -1
\* without changing buf_size and without reallocating.
C6_CeilingEnforced ==
    /\ [](buf_size <= ctx.buffer_size)
    /\ [][ev'.outcome = "CapacityExceeded"
            => (ev'.ret = -1 /\ buf_size' = buf_size /\ ~ev'.realloc)]_vars

C6_Witness ==
    /\ ev.outcome = "CapacityExceeded"
    /\ buf_size = ctx.buffer_size

\* C7: in JSON format, a tokenized pass with a top-level value that is
\* neither a map nor an array (process_pack returns -1) is treated as
\* Invalid: the buffer is discarded, nothing is consumed as records, the
\* parser state is hard-reset.
C7_ScalarTreatedAsInvalid ==
    (Json /\ ev.framed /\ ev.pp_called /\ ev.pp_ret = -1)
        => /\ ev.outcome = "Invalid"
           /\ buf_len = 0
           /\ ev.reset_exit

\* C8: the sink is called exactly once in an event whose framing pass
\* yielded at least one record and not at all in an event that yielded
\* none (NeedMoreData, Invalid, read failure, CapacityExceeded), in both
\* formats.
C8_SinkOncePerYieldingPass ==
    /\ Delivered => Len(ev.sink) = 1
    /\ ev.outcome \in {"NeedMoreData", "Invalid", "ReadFailure",
                       "CapacityExceeded"} => Len(ev.sink) = 0

\* C9: the value returned for NeedMoreData differs from the value returned
\* for the outcomes that tear the connection down.
C9_NeedMoreDataDistinguishable ==
    [][(ev.outcome = "NeedMoreData"
        /\ ev'.outcome \in {"CapacityExceeded", "ReadFailure"})
        => ev'.ret # ev.ret]_vars

\* --- C10: delimited framing with a single-byte separator
SepPositions(buf, b) == {i \in 1..Len(buf) : buf[i] = b}

\* the separator that ends the segment before position p, or 0
PrevSep(P, p) ==
    IF {q \in P : q < p} = {} THEN 0
    ELSE CHOOSE q \in P : q < p /\ \A r \in P : r < p => r <= q

LastSep(P) == CHOOSE q \in P : \A r \in P : r <= q

\* k >= 1 non-empty segments, each followed by the separator, then bytes
\* without a separator
SegmentedShape(buf, b) ==
    LET P == SepPositions(buf, b) IN
    /\ P # {}
    /\ \A p \in P : p - PrevSep(P, p) > 1

\* the records {"log": segment_i}, in buffer order
SegmentRecords(buf, b) ==
    LET P == SepPositions(buf, b) IN
    [j \in 1..Cardinality(P) |->
        LET p == CHOOSE q \in P : Cardinality({r \in P : r <= q}) = j
        IN  Envelope("log", SubSeq(buf, PrevSep(P, p) + 1, p - 1))]

C10_Case ==
    /\ Text /\ Len(ctx.separator) = 1
    /\ ev.framed
    /\ SegmentedShape(ev.scan_buf, ctx.separator[1])

C10_Result ==
    LET b == ctx.separator[1]
        n == LastSep(SepPositions(ev.scan_buf, b))
    IN  /\ ev.sink = <<SegmentRecords(ev.scan_buf, b)>>
        /\ ev.ret_payload = n
        /\ buf_data = SubSeq(ev.scan_buf, n + 1, Len(ev.scan_buf))
        /\ buf_len = Len(ev.scan_buf) - n

\* C10 as stated: for every buffer of that shape one pass emits the k
\* records in order, consumes up to and including the k-th separator and
\* leaves exactly the trailing bytes.
C10_Original == C10_Case => C10_Result

\* no NUL byte among the segments (before the last separator)
NoNulInSegments(buf, b) ==
    \A i \in 1..LastSep(SepPositions(buf, b)) : buf[i] # NUL

\* C10 (amended): the same, for a buffer whose segments contain no NUL
\* byte; strstr stops at the first NUL, so a NUL before a separator hides
\* that separator and every later one.
C10_DelimitedFraming ==
    (C10_Case /\ NoNulInSegments(ev.scan_buf, ctx.separator[1]))
        => C10_Result

C10_Witness ==
    /\ C10_Case
    /\ NoNulInSegments(ev.scan_buf, ctx.separator[1])
    /\ Cardinality(SepPositions(ev.scan_buf, ctx.separator[1])) = 2
    /\ buf_len > 0
    /\ ev.outcome = "Consumed"

\* --- C11: concatenated objects in one read
\* js cut into its top-level objects by brace depth; <<>> when js is not a
\* concatenation of complete objects
RECURSIVE CutObjects(_, _, _, _, _)
CutObjects(js, i, depth, start, acc) ==
    IF i > Len(js) THEN (IF depth = 0 THEN acc ELSE <<>>)
    ELSE IF js[i] = "{" THEN
        CutObjects(js, i + 1, depth + 1, IF depth = 0 THEN i ELSE start, acc)
    ELSE IF js[i] = "}" /\ depth > 0 THEN
        CutObjects(js, i + 1, depth - 1, start,
                   IF depth = 1 THEN Append(acc, SubSeq(js, start, i)) ELSE acc)
    ELSE <<>>

ObjectsOf(js) == CutObjects(js, 1, 0, 0, <<>>)

C12_StripsOneLeadingNewline ==
    ev.rd # <<>>
        => /\ ev.framed
           /\ ev.read_buf # <<>>
           /\ IF ev.read_buf[1] \in {CR, LF}
              THEN /\ ev.scan_buf = Tail(ev.read_buf)
                   /\ Len(ev.scan_buf) = Len(ev.read_buf) - 1
              ELSE ev.scan_buf = ev.read_buf

C12_Witness ==
    /\ Json /\ ev.framed
    /\ Len(ev.read_buf) >= 3
    /\ ev.read_buf[1] = LF /\ ev.read_buf[2] = LF
    /\ ev.scan_buf[1] = LF

\* the configured framer run once more on the connection as it is
FramerAgain ==
    IF Json THEN parse_payload_json(buf_data, buf_len, pack_state)
    ELSE parse_payload_none(buf_data, buf_len, pack_state, ctx.separator)

\* C13: after a framing pass that returned NeedMoreData, the same framer
\* run again on the same connection, no byte appended, returns NeedMoreData
\* again and leaves buf_len (and so the valid bytes of the buffer, which a
\* framer never writes) as it was.
C13_IdempotentAfterNeedMoreData ==
    ev.outcome = "NeedMoreData"
        => /\ FramerAgain.ret = 0
           /\ FramerAgain.buf_len = buf_len
           /\ buf_data = ev.scan_buf

C13_Witness ==
    /\ Json
    /\ ev.outcome = "NeedMoreData"
    /\ buf_len >= 2
    /\ Len(pack_state.stack) >= 2
    /\ FramerAgain.ret = 0

\* --- C14: the consumed count of a delimited pass
\* sum over the records of a batch of (segment length + L)
RECURSIVE SegmentsAndSeparators(_, _)
SegmentsAndSeparators(batch, L) ==
    IF batch = <<>> THEN 0
    ELSE Len(batch[1][2].val) + L + SegmentsAndSeparators(Tail(batch), L)

\* C14: in delimited format, for a separator of any length L, the number of
\* bytes a pass reports as consumed is the sum over the records it emitted
\* of (segment length + L), and after consume_bytes the buffer starts at
\* the first byte after the last separator that ended an emitted record.
C14_ConsumedCountsSeparator ==
    (Text /\ ev.framed)
        => LET n == SegmentsAndSeparators(ev.sink[1], Len(ctx.separator)) IN
           /\ ev.ret_payload = n
           /\ buf_data = SubSeq(ev.scan_buf, n + 1, Len(ev.scan_buf))

\* C15: in every reachable state 0 <= buf_len < buf_size, so the sentinel
\* written at buf_data[buf_len] is inside the allocation.
C15_LengthBelowCapacity ==
    /\ 0 <= buf_len
    /\ buf_len < buf_size

C15_Witness ==
    /\ ev.framed
    /\ ev.outcome = "NeedMoreData"
    /\ buf_len >= 3
    /\ buf_len = buf_size - 1

\* C16: in JSON format, when the tokenizer reports invalid syntax, at the
\* end of that event the buffer is empty, the parser state is the reset and
\* reinitialised one with multiple = TRUE, no envelope went to the sink and
\* the event returned -1.
C16_InvalidSyntaxDiscards ==
    (Json /\ ev.outcome = "Invalid")
        => /\ buf_len = 0 /\ buf_data = <<>>
           /\ ev.reset_exit
           /\ pack_state = [pos |-> 0, stack |-> <<>>, tok_start |-> 0,
                            tokens_count |-> 0, last_byte |-> 0,
                            multiple |-> TRUE]
           /\ ev.sink = <<>>
           /\ ev.ret = -1

C16_Witness ==
    /\ Json /\ ev.outcome = "Invalid"
    /\ ev.scan_buf = <<"{", "}", "}">>
    /\ buf_len = 0

\* C17: in JSON format, when process_pack meets a top-level value that is
\* neither a map nor an array after it packed earlier valid entries of the
\* same pass, flb_input_log_append is not called for that pass: none of the
\* earlier entries reaches the sink.
C17_NothingDeliveredOnBadEntry ==
    (Json /\ ev.pp_called /\ ev.pp_ret = -1 /\ ev.pp_packed >= 1)
        => ev.sink = <<>>

C17_Witness ==
    /\ Json /\ ev.pp_called /\ ev.pp_ret = -1
    /\ ev.pp_packed = 1
    /\ ev.scan_buf = <<"{", "}", "4">>
    /\ ev.sink = <<>>

\* --- C18: an empty segment ends a delimited pass
\* offsets (from 0) at which the separator occurs in buf
SepOffsets(buf, sep) ==
    {i \in 0..(Len(buf) - Len(sep)) : SubSeq(buf, i + 1, i + Len(sep)) = sep}

\* where the segment that the separator at offset o ends begins
SegmentStart(buf, sep, o) ==
    LET before == {q \in SepOffsets(buf, sep) : q < o} IN
    IF before = {} THEN 0
    ELSE (CHOOSE q \in before : \A r \in before : r <= q) + Len(sep)

\* e is the offset of the first separator whose segment is empty: every
\* separator before it ends a non-empty segment, and no NUL byte before it
\* hides it from the scan
FirstEmptySegment(buf, sep, e) ==
    /\ e \in SepOffsets(buf, sep)
    /\ SegmentStart(buf, sep, e) = e
    /\ \A o \in SepOffsets(buf, sep) : o < e => SegmentStart(buf, sep, o) < o
    /\ \A i \in 1..e : buf[i] # NUL

\* the records of the segments that end before offset e, in buffer order
RecordsBefore(buf, sep, e) ==
    LET O == {o \in SepOffsets(buf, sep) : o < e} IN
    [j \in 1..Cardinality(O) |->
        LET o == CHOOSE q \in O : Cardinality({r \in O : r <= q}) = j
        IN  Envelope("log", SubSeq(buf, SegmentStart(buf, sep, o) + 1, o))]

\* the bytes of the segments that end before offset e
RECURSIVE SegmentBytes(_)
SegmentBytes(batch) ==
    IF batch = <<>> THEN 0
    ELSE Len(batch[1][2].val) + SegmentBytes(Tail(batch))

\* C18: in delimited format, when the scan reaches a separator whose
\* segment is empty (at offset e), the pass stops there: exactly the
\* segments before e are emitted, in order, their bytes are counted as
\* consumed (all e bytes when the separator is one byte long), no byte from
\* e on is counted, and the bytes from e on are still in the buffer at the
\* end of the event.
C18_EmptySegmentEndsPass ==
    (Text /\ ev.framed)
        => \A e \in 0..Len(ev.scan_buf) :
             FirstEmptySegment(ev.scan_buf, ctx.separator, e)
               => LET recs == RecordsBefore(ev.scan_buf, ctx.separator, e) IN
                  /\ ev.sink = <<recs>>
                  /\ SegmentBytes(recs) <= ev.ret_payload
                  /\ ev.ret_payload <= e
                  /\ Len(ctx.separator) = 1 => ev.ret_payload = e
                  /\ buf_data = SubSeq(ev.scan_buf, ev.ret_payload + 1,
                                       Len(ev.scan_buf))

C18_Witness ==
    /\ Text /\ ev.framed
    /\ \E e \in 1..Len(ev.scan_buf) :
         /\ FirstEmptySegment(ev.scan_buf, ctx.separator, e)
         /\ \E o \in SepOffsets(ev.scan_buf, ctx.separator) :
              /\ o > e + Len(ctx.separator)
              /\ SegmentStart(ev.scan_buf, ctx.separator, o) < o
    /\ Len(ev.sink) = 1 /\ Len(ev.sink[1]) = 1
    /\ ev.outcome = "Consumed"

\* C19: in JSON format pack_state.multiple is TRUE at every call of
\* parse_payload_json, whatever outcomes came before on the connection.
C19_MultipleAtEveryPass ==
    (Json /\ ev.framed) => ev.multiple

C19_Witness ==
    /\ Json /\ ev.framed /\ ev.multiple
    /\ ev.reset_entry
    /\ ev.outcome = "Invalid"

\* C20: the capacity changes only in an event whose headroom
\* buf_size - buf_len - 1 at its start is less than 1, and then by exactly
\* chunk_size; with chunk_size >= 2 buf_size stays equal to chunk_size and
\* no event ends with CapacityExceeded.
C20_GrowthOnlyWithoutHeadroom ==
    /\ [][buf_size' # buf_size
            => /\ buf_size - buf_len - 1 < 1
               /\ buf_size' = buf_size + ctx.chunk_size
               /\ ev'.realloc]_vars
    /\ [](ctx.chunk_size >= 2
            => /\ buf_size = ctx.chunk_size
               /\ ev.outcome # "CapacityExceeded")

C20_Witness ==
    /\ ctx.chunk_size >= 2
    /\ ctx.buffer_size >= 2 * ctx.chunk_size
    /\ ev.reset_entry
    /\ ev.outcome = "NeedMoreData"
    /\ buf_len = buf_size - 1
    /\ buf_size = ctx.chunk_size

====
